---- MODULE Spec2Model ----
(***************************************************************************)
(* Model of the Google Calendar MCP tool server: the nine tools of         *)
(* src/src/server.py, the calendar operations of src/src/google_calendar.py *)
(* they call, and the _retry wrapper around every remote call.             *)
(*                                                                         *)
(* One tool invocation runs at a time (synchronous request per call).      *)
(* The remote calendar API is the environment: every execution of a        *)
(* request answers with a status or an exception chosen                    *)
(* nondeterministically, and a payload chosen from small pools.            *)
(***************************************************************************)
EXTENDS Integers, Sequences, FiniteSets, TLC

(***************************************************************************)
(* Bounds of the model.                                                    *)
(***************************************************************************)
\* largest number of calendars the remote account lists
MaxCals == 2
\* largest number of calendar entries the remote puts on one page
MaxPageSize == 2
\* most clauses in one drawn RRULE line
MaxParts == 3
\* most lines in one drawn recurrence list
MaxLines == 2
\* most tokens in one drawn reminders list
MaxTokens == 3
\* latest day a drawn start or end string names
MaxDay == 3

(***************************************************************************)
(* Python values.                                                          *)
(***************************************************************************)
\* None where a mapping is expected
None == [none |-> TRUE]
\* None where an identifier or timestamp string is expected
NoneS == "None"
\* None where a calendar query string is expected
NoneQ == <<"None">>

Min(a, b) == IF a <= b THEN a ELSE b

\* bool(x) of an optional identifier string
TruthyS(s) == s # NoneS /\ s # ""

\* bool(x) of an optional calendar query (strings are sequences of characters)
TruthyQ(q) == q # NoneQ /\ q # <<>>

(***************************************************************************)
(* Strings that are inspected character by character (calendar ids,        *)
(* display names, queries) are sequences of one-character strings.         *)
(***************************************************************************)
LowerChar(c) ==
    CASE c = "C" -> "c"
      [] c = "W" -> "w"
      [] c = "X" -> "x"
      [] OTHER -> c

\* str.lower()
Lower(s) == [i \in 1..Len(s) |-> LowerChar(s[i])]

RECURSIVE LStrip(_)
LStrip(s) == IF s # <<>> /\ Head(s) = " " THEN LStrip(Tail(s)) ELSE s

RECURSIVE RStrip(_)
RStrip(s) ==
    IF s # <<>> /\ s[Len(s)] = " " THEN RStrip(SubSeq(s, 1, Len(s) - 1)) ELSE s

\* str.strip()
Strip(s) == RStrip(LStrip(s))

primary == <<"p", "r", "i", "m", "a", "r", "y">>

(***************************************************************************)
(* The remote account: the calendars it lists, the events it stores.       *)
(***************************************************************************)
c1 == <<"c", "1">>
c2 == <<"c", "2">>

\* calendarList entries, projected on the fields the resolver reads
CalPool ==
    { [id |-> c1, summary |-> <<"W">>],
      [id |-> c1, summary |-> c2],
      [id |-> c2, summary |-> NoneQ],
      [id |-> <<"w">>, summary |-> <<" ", "X">>] }

RECURSIVE SeqsUpTo(_, _)
SeqsUpTo(S, n) ==
    IF n = 0 THEN {<<>>}
    ELSE LET shorter == SeqsUpTo(S, n - 1)
         IN  shorter \cup {Append(q, x) : q \in shorter, x \in S}

\* calendar ids are unique in one account
Listings ==
    { l \in SeqsUpTo(CalPool, MaxCals) :
        \A i, j \in 1..Len(l) : l[i].id = l[j].id => i = j }

\* calendar arguments a caller passes
Queries ==
    { NoneQ, <<>>, c2, <<"C", "2">>, <<"W", " ">>, <<"z">> }

\* an ISO timestamp: seconds of local time and the UTC offset in seconds
Stamp(l, o) == [local |-> l, offset |-> o]
\* a string datetime.fromisoformat rejects
BadIso == [bad |-> TRUE]

\* start / end resources of the remote: {"dateTime": ...} or {"date": ...}
TimedStart == [dateTime |-> Stamp(0, 0), date |-> None]
TimedEnd == [dateTime |-> Stamp(30, 0), date |-> None]
DateStart == [dateTime |-> None, date |-> [day |-> 1]]
DateEnd == [dateTime |-> None, date |-> [day |-> 2]]

\* a recurrence line: the property name before ':' and the ';'-separated
\* clauses after it, each a key and a value around '='
RRuleWeekly == [name |-> "RRULE", parts |-> <<[key |-> "FREQ", val |-> "WEEKLY"]>>]
ExDate == [name |-> "EXDATE", parts |-> <<[key |-> "20240108T090000Z", val |-> ""]>>]

\* event resources the remote can answer events().get with
EventPool ==
    { [id |-> "seriesA", recurringEventId |-> NoneS, start |-> TimedStart,
       end |-> TimedEnd, recurrence |-> <<RRuleWeekly>>, status |-> "confirmed"],
      [id |-> "seriesA", recurringEventId |-> NoneS, start |-> TimedStart,
       end |-> TimedEnd, recurrence |-> <<ExDate>>, status |-> "confirmed"],
      [id |-> "seriesA", recurringEventId |-> NoneS, start |-> TimedStart,
       end |-> TimedEnd, recurrence |-> <<>>, status |-> "confirmed"],
      [id |-> "seriesA", recurringEventId |-> NoneS, start |-> DateStart,
       end |-> DateEnd, recurrence |-> <<RRuleWeekly>>, status |-> "confirmed"],
      [id |-> "seriesA", recurringEventId |-> NoneS, start |-> TimedStart,
       end |-> DateEnd, recurrence |-> <<RRuleWeekly>>, status |-> "confirmed"],
      [id |-> "instA1", recurringEventId |-> "seriesA", start |-> TimedStart,
       end |-> TimedEnd, recurrence |-> <<>>, status |-> "confirmed"] }

\* instances the remote can answer events().instances with
InstancePool ==
    { <<>>,
      << [id |-> "instA1", recurringEventId |-> "seriesA",
          originalStartTime |-> [dateTime |-> "2024-01-01T09:00:00Z", date |-> NoneS], status |-> "confirmed"],
         [id |-> "instA2", recurringEventId |-> "seriesA",
          originalStartTime |-> [dateTime |-> NoneS, date |-> "2024-01-08"], status |-> "confirmed"] >> }

(***************************************************************************)
(* What one execution of a remote request can answer.                      *)
(***************************************************************************)
\* HTTP statuses the remote answers with
Statuses == {200, 403, 404, 429, 500, 502, 503, 504}

\* the statuses that mean rate limiting or a server-side error
RemoteTransient == {429, 500, 502, 503, 504}

\* google.auth RefreshError messages
RefreshMessages == {"invalid_grant: Token has been expired or revoked.", "transport failure"}

Outcomes ==
    [kind : {"http"}, status : Statuses, message : {""}]
    \cup [kind : {"refresh"}, status : {0}, message : RefreshMessages]
    \cup [kind : {"exception"}, status : {0}, message : {"connection reset"}]

(***************************************************************************)
(* State.                                                                  *)
(*   envOk     the process environment holds the three Google credentials  *)
(*   world     the remote account as the current listing sees it           *)
(*   op        the tool invocation in progress and its arguments           *)
(*   pc        position of the invocation inside its handler               *)
(*   log       the remote requests handed to _retry, in order, each with   *)
(*             its body and how _retry ended                               *)
(*   loc       local variables of the handler                              *)
(*   result    what the tool returned to the transport                     *)
(*   attempt, backoff      loop index and sleep length inside _retry       *)
(*   sleeps    the time.sleep calls of the current _retry                  *)
(*   ncalls    executions of the request by the current _retry             *)
(*   ntransient  how many of them the remote answered with rate limiting   *)
(*             or a server-side error                                      *)
(*   status    HTTP status of the last execution (0: none or an exception) *)
(*   answered  payload the remote sent with the last execution             *)
(*   rstate    "idle", "running", "returned" or "raised"                   *)
(*   rval, rexc   value returned / exception raised by _retry              *)
(***************************************************************************)
VARIABLES envOk, world, op, pc, log, loc, result,
          attempt, backoff, sleeps, ncalls, ntransient, status, answered,
          rstate, rval, rexc

retryVars ==
    <<attempt, backoff, sleeps, ncalls, ntransient, status, answered, rstate, rval, rexc>>
vars == <<envOk, world, op, pc, log, loc, result,
          attempt, backoff, sleeps, ncalls, ntransient, status, answered,
          rstate, rval, rexc>>

NoOp == [tool |-> "none"]
NoResult == [pending |-> TRUE]
NoWorld == [unknown |-> TRUE]
InitLoc ==
    [calId |-> NoneQ, calendars |-> <<>>, pageToken |-> 0, fetched |-> None,
     events |-> <<>>, idx |-> 0]

\* dict.get(key) of a mapping that may lack the key
Get(rec, key) == IF key \in DOMAIN rec THEN rec[key] ELSE NoneS

(***************************************************************************)
(* Exceptions and the error envelope.                                      *)
(***************************************************************************)
HttpError(st) ==
    [type |-> "HttpError", status |-> st, message |-> "HttpError " \o ToString(st)]

RefreshError(msg) == [type |-> "RefreshError", status |-> 0, message |-> msg]

ValueError(msg) == [type |-> "ValueError", status |-> 0, message |-> msg]

\* None.get(...) after _retry returned None
AttributeError ==
    [type |-> "AttributeError", status |-> 0,
     message |-> "'NoneType' object has no attribute 'get'"]

\* None["status"] = ... after _retry returned None
TypeError ==
    [type |-> "TypeError", status |-> 0,
     message |-> "'NoneType' object does not support item assignment"]

_error_response(exc) ==
    [ok |-> FALSE, error |-> [type |-> exc.type, message |-> exc.message]]

(***************************************************************************)
(* _retry                                                                  *)
(***************************************************************************)
\* 404 is taken for a status worth retrying
TransientStatuses_404 == {404, 429, 500, 502, 503, 504}

TransientStatuses == {429, 500, 502, 503, 504}
MaxAttempts == 5
InitialBackoff == 1
BackoffCap == 8

\* the backoff grows by one instead of doubling
NextBackoff_add(b) == Min(b + 1, BackoffCap)

NextBackoff(b) == Min(b * 2, BackoffCap)

\* "invalid_grant" in msg or "expired" in msg.lower() or "revoked" in msg.lower()
IsGrantMessage(msg) == msg = "invalid_grant: Token has been expired or revoked."

RemediationMessage ==
    "Refresh token has expired or been revoked. Please generate a new refresh token using: python3 scripts/get_google_refresh_token.py"

\* the exception _retry lets out for a failed execution it does not retry
Raised(out) ==
    CASE out.kind = "http" -> HttpError(out.status)
      [] out.kind = "refresh" ->
            IF IsGrantMessage(out.message)
            THEN RefreshError(RemediationMessage)
            ELSE RefreshError(out.message)
      [] OTHER ->
            [type |-> "ConnectionResetError", status |-> 0, message |-> out.message]

CurReq == log[Len(log)]

\* one page of calendarList().list(pageToken=tok)
Page(listing, tok, size) ==
    LET last == Min(tok + size, Len(listing))
    IN  [items |-> SubSeq(listing, tok + 1, last),
         nextPageToken |-> IF last < Len(listing) THEN last ELSE 0]

\* events().list answers: items and a continuation token (0: none)
EventsListPool ==
    { [items |-> <<>>, nextPageToken |-> 0],
      [items |-> <<[id |-> "e1", summary |-> "Standup"]>>, nextPageToken |-> 0],
      [items |-> <<[id |-> "e1", summary |-> "Standup"]>>, nextPageToken |-> 1] }

\* payloads the remote can send with a 200 for the current request
Payloads ==
    CASE CurReq.fn = "calendarList.list" ->
            {Page(world.listing, loc.pageToken, world.pageSize)}
      [] CurReq.fn = "calendars.get" -> {[id |-> op.calendar]}
      [] CurReq.fn = "events.list" -> EventsListPool
      [] CurReq.fn = "events.get" -> EventPool
      [] CurReq.fn = "events.instances" -> {[items |-> i] : i \in InstancePool}
      [] CurReq.fn = "events.insert" -> {[id |-> "created1"] @@ CurReq.body}
      [] CurReq.fn = "events.patch" -> {[id |-> op.event_id] @@ CurReq.body}
      [] CurReq.fn = "events.update" -> {CurReq.body}
      [] OTHER -> {[empty |-> TRUE]}

SetRes(r) == [log EXCEPT ![Len(log)].res = r]

\* one pass through the body of the for loop: execute the request, then
\* return, sleep and go round again, or raise
RetryAttempt ==
    /\ rstate = "running"
    /\ \E out \in Outcomes :
         /\ ncalls' = ncalls + 1
         /\ ntransient' = IF out.status \in RemoteTransient
                          THEN ntransient + 1 ELSE ntransient
         /\ status' = out.status
         /\ IF out.kind = "http" /\ out.status = 200
            THEN \E p \in Payloads :
                    /\ answered' = p
                    /\ rval' = p
                    /\ rstate' = "returned"
                    /\ log' = SetRes("ok")
                    /\ UNCHANGED <<attempt, backoff, sleeps, rexc>>
            ELSE IF out.kind = "http" /\ out.status \in TransientStatuses
            THEN /\ sleeps' = Append(sleeps, backoff)
                 /\ backoff' = NextBackoff(backoff)
                 /\ attempt' = attempt + 1
                 /\ rstate' = IF attempt + 1 < MaxAttempts THEN "running" ELSE "returned"
                 /\ log' = IF attempt + 1 < MaxAttempts THEN log ELSE SetRes("exhausted")
                 /\ UNCHANGED <<answered, rval, rexc>>
            ELSE /\ rexc' = Raised(out)
                 /\ rstate' = "raised"
                 /\ log' = SetRes("raised")
                 /\ UNCHANGED <<answered, rval, attempt, backoff, sleeps>>
    /\ UNCHANGED <<envOk, world, op, pc, loc, result>>

(***************************************************************************)
(* Steps shared by the handlers.                                           *)
(***************************************************************************)
\* hand a request to _retry
Call(f, b, nloc, npc) ==
    /\ log' = Append(log, [fn |-> f, body |-> b, res |-> "pending"])
    /\ attempt' = 0
    /\ backoff' = InitialBackoff
    /\ sleeps' = <<>>
    /\ ncalls' = 0
    /\ ntransient' = 0
    /\ status' = 0
    /\ answered' = None
    /\ rstate' = "running"
    /\ rval' = None
    /\ rexc' = None
    /\ loc' = nloc
    /\ pc' = npc
    /\ UNCHANGED result

\* an exception leaves the library function; the tool's except clause
\* turns it into the error envelope
Raise(exc) ==
    /\ result' = _error_response(exc)
    /\ pc' = "done"
    /\ UNCHANGED <<log, loc, retryVars>>

\* the tool returns res
Finish(res) ==
    /\ result' = res
    /\ pc' = "done"
    /\ UNCHANGED <<log, loc, retryVars>>

\* control moves on without a remote request
Goto(nloc, npc) ==
    /\ loc' = nloc
    /\ pc' = npc
    /\ UNCHANGED <<log, result, retryVars>>

RetryEnded == rstate \in {"returned", "raised"}

(***************************************************************************)
(* Tool invocations and their arguments.                                   *)
(***************************************************************************)
\* an ISO date or date-time string: its date part (0: not a date), whether
\* it contains a 'T', and the seconds of a time of day written after a
\* separator other than 'T' ("2024-01-01 12:00")
IsoValue(d, t) == [day |-> d, hasT |-> t, tod |-> 0]
IsoSpaced(d, tod) == [day |-> d, hasT |-> FALSE, tod |-> tod]

\* <<instance_id, recurring_event_id, original_start_time>>
CancelArgs ==
    { <<"instA1", NoneS, NoneS>>, <<"instA1", "seriesA", NoneS>>,
      <<"instA1", "seriesB", NoneS>>, <<NoneS, NoneS, NoneS>>,
      <<NoneS, "seriesA", NoneS>>, <<NoneS, NoneS, "2024-01-01T09:00:00Z">>,
      <<NoneS, "seriesA", "2024-01-08">>, <<NoneS, "seriesA", "2024-01-15T09:00:00Z">> }

\* an item of a reminders argument: an int, a float (n is twice its value)
\* or a string (a number and the unit written after it)
IntItem(n) == [kind |-> "int", n |-> n, unit |-> ""]
FloatItem(twice) == [kind |-> "float", n |-> twice, unit |-> ""]
StrItem(n, unit) == [kind |-> "str", n |-> n, unit |-> unit]

\* reminders arguments of create_event: absent, or a JSON array
ReminderArgs ==
    { None, [list |-> <<>>], [list |-> <<IntItem(-5)>>],
      [list |-> <<IntItem(120), IntItem(60), IntItem(60), IntItem(-5)>>] }

Patches ==
    { [summary |-> "Standup"],
      [start |-> IsoValue(1, TRUE), end |-> IsoValue(1, FALSE)] }

Ops ==
    [tool : {"list_calendars"}]
    \cup [tool : {"list_events"}, calendar : Queries, include_all_calendars : BOOLEAN]
    \cup [tool : {"create_event"}, calendar : Queries,
          start : {IsoValue(1, TRUE), IsoValue(0, FALSE)},
          end : {None, IsoValue(2, TRUE)}, all_day : BOOLEAN,
          reminders : ReminderArgs]
    \cup [tool : {"update_event"}, calendar : Queries, event_id : {"e1"}, patch : Patches]
    \cup [tool : {"delete_event"}, calendar : Queries, event_id : {"e1"},
          as_instance : BOOLEAN]
    \cup [tool : {"resolve_calendar"}, calendar : Queries]
    \cup [tool : {"list_recurring_instances"}, calendar : Queries,
          recurring_event_id : {"seriesA"}]
    \cup { [tool |-> "cancel_recurring_instance", calendar |-> q, instance_id |-> a[1],
            recurring_event_id |-> a[2], original_start_time |-> a[3]] :
           q \in Queries, a \in CancelArgs }
    \cup [tool : {"update_following_instances"}, calendar : Queries,
          recurring_event_id : {"seriesA"},
          target_instance_start : {BadIso, Stamp(7, 3)},
          change_patch : {[summary |-> "Moved"]},
          new_recurrence : {<<RRuleWeekly>>}]

Init ==
    /\ envOk \in BOOLEAN
    /\ world = NoWorld
    /\ op = NoOp
    /\ pc = "idle"
    /\ log = <<>>
    /\ loc = InitLoc
    /\ result = NoResult
    /\ attempt = 0
    /\ backoff = InitialBackoff
    /\ sleeps = <<>>
    /\ ncalls = 0
    /\ ntransient = 0
    /\ status = 0
    /\ answered = None
    /\ rstate = "idle"
    /\ rval = None
    /\ rexc = None

MissingEnv ==
    ValueError("Missing required environment variables: GOOGLE_REFRESH_TOKEN, GOOGLE_CLIENT_ID, and GOOGLE_CLIENT_SECRET must be set")

\* list_calendars: set out on the first page
StartList(nloc, npc) ==
    /\ \E l \in Listings, size \in 1..MaxPageSize :
          world' = [listing |-> l, pageSize |-> size]
    /\ Call("calendarList.list", None,
            [nloc EXCEPT !.calendars = <<>>, !.pageToken = 0], npc)

\* resolve_calendar_id up to its first remote request
StartResolve(query) ==
    IF ~TruthyQ(query)
    THEN Goto([loc EXCEPT !.calId = primary], "resolved") /\ UNCHANGED world
    ELSE Call("calendars.get", None, loc, "probe") /\ UNCHANGED world

\* the transport calls a tool; the handler runs up to its first remote request
Invoke ==
    /\ pc = "idle"
    /\ \E o \in Ops :
         /\ op' = o
         /\ IF ~envOk
            THEN Raise(MissingEnv) /\ UNCHANGED world
            ELSE CASE o.tool = "list_calendars" -> StartList(loc, "lc")
                   [] o.tool = "list_events" ->
                        IF o.include_all_calendars \/ ~TruthyQ(o.calendar)
                        THEN StartList(loc, "le_list")
                        ELSE StartResolve(o.calendar)
                   [] OTHER -> StartResolve(o.calendar)
    /\ UNCHANGED envOk

\* resolve_calendar_id after the probe: return the query, or go on to list
ProbeDone ==
    /\ pc = "probe"
    /\ RetryEnded
    /\ IF rstate = "returned"
       THEN Goto([loc EXCEPT !.calId = op.calendar], "resolved") /\ UNCHANGED world
       ELSE StartList(loc, "resolve_list")
    /\ UNCHANGED <<envOk, op>>

\* the loop of resolve_calendar_id over the listed calendars
RECURSIVE MatchCalendar(_, _)
MatchCalendar(qnorm, cals) ==
    IF cals = <<>> THEN primary
    ELSE LET cal == Head(cals)
             summary == IF cal.summary = NoneQ THEN <<>> ELSE cal.summary
         IN  IF Lower(cal.id) = qnorm THEN cal.id
             ELSE IF Lower(Strip(summary)) = qnorm THEN cal.id
             ELSE MatchCalendar(qnorm, Tail(cals))

\* the summary lookup of the resolve_calendar tool
RECURSIVE SummaryOf(_, _)
SummaryOf(calendar_id, cals) ==
    IF cals = <<>> THEN NoneQ
    ELSE IF Head(cals).id = calendar_id THEN Head(cals).summary
    ELSE SummaryOf(calendar_id, Tail(cals))

\* events().list(calendarId=cid, ...) of pull
CallPull(cid, nloc) == Call("events.list", [calendarId |-> cid], nloc, "pull")

\* list_calendars has returned cals to its caller
ListDone(cals) ==
    CASE pc = "lc" -> Finish([calendars |-> cals])
      [] pc = "resolve_list" ->
            Goto([loc EXCEPT !.calendars = cals,
                             !.calId = MatchCalendar(Lower(Strip(op.calendar)), cals)],
                 "resolved")
      [] pc = "le_list" ->
            IF cals = <<>> THEN Finish([events |-> <<>>])
            ELSE CallPull(cals[1].id, [loc EXCEPT !.calendars = cals, !.idx = 1])
      [] OTHER ->
            Finish([calendarId |-> loc.calId, summary |-> SummaryOf(loc.calId, cals)])

\* list_calendars after one page request: append the items, follow the token
ListCalendarsPage ==
    /\ pc \in {"lc", "resolve_list", "le_list", "rc_list"}
    /\ RetryEnded
    /\ IF rstate = "raised" THEN Raise(rexc)
       ELSE IF rval = None THEN Raise(AttributeError)
       ELSE LET cals == loc.calendars \o rval.items
            IN  IF rval.nextPageToken # 0
                THEN Call("calendarList.list", None,
                          [loc EXCEPT !.calendars = cals,
                                      !.pageToken = rval.nextPageToken], pc)
                ELSE ListDone(cals)
    /\ UNCHANGED <<envOk, world, op>>

(***************************************************************************)
(* The handlers after resolve_calendar_id.                                 *)
(***************************************************************************)
EmptyDict == [k \in {} |-> None]

\* datetime.fromisoformat(_extract_date(value)): the day and the seconds of
\* the day; a 'T' and what follows it are cut off before parsing
DateTimeOf(value) == [day |-> value.day, tod |-> IF value.hasT THEN 0 ELSE value.tod]

\* a <= b of two naive datetimes
NotAfter(a, b) == a.day < b.day \/ (a.day = b.day /\ a.tod <= b.tod)

\* time_payloads of create_event (all_day): end_dt after the adjustment
AllDayEnd(start_value, end_value) ==
    LET start_dt == DateTimeOf(start_value)
        end_dt == IF end_value # None /\ end_value.day # 0
                  THEN DateTimeOf(end_value) ELSE start_dt
    IN  IF NotAfter(end_dt, start_dt)
        THEN [day |-> start_dt.day + 1, tod |-> start_dt.tod]
        ELSE end_dt

\* int(item) of an int or a float: truncation toward zero
IntOf(item) ==
    IF item.kind = "int" THEN item.n
    ELSE IF item.n >= 0 THEN item.n \div 2 ELSE -((-item.n) \div 2)

\* sorted(S) of a set of integers
RECURSIVE Sorted(_)
Sorted(S) ==
    IF S = {} THEN <<>>
    ELSE LET m == CHOOSE x \in S : \A y \in S : x <= y
         IN  <<m>> \o Sorted(S \ {m})

\* the loop of _normalize_reminder_minutes: the minutes kept, in input order
RECURSIVE KeptMinutes(_)
KeptMinutes(items) ==
    IF items = <<>> THEN <<>>
    ELSE LET item == Head(items)
         IN  (IF item.kind \in {"int", "float"} /\ IntOf(item) >= 0
              THEN <<IntOf(item)>> ELSE <<>>) \o KeptMinutes(Tail(items))

\* a normalization that returns the kept minutes as they came
_normalize_reminder_minutes_unsorted(value) ==
    IF value = None THEN None
    ELSE IF "list" \notin DOMAIN value THEN None
    ELSE [list |-> KeptMinutes(value.list)]

\* _normalize_reminder_minutes: None for an absent value or one that is not
\* a list, else the sorted duplicate-free minutes
_normalize_reminder_minutes(value) ==
    IF value = None THEN None
    ELSE IF "list" \notin DOMAIN value THEN None
    ELSE LET minutes == KeptMinutes(value.list)
         IN  [list |-> Sorted({minutes[i] : i \in 1..Len(minutes)})]

\* reminders_payload of the create_event tool
RemindersPayload(value) ==
    LET minutes_list == _normalize_reminder_minutes(value)
    IN  IF minutes_list = None THEN None
        ELSE IF Len(minutes_list.list) > 0
        THEN [useDefault |-> FALSE,
              overrides |-> [i \in 1..Len(minutes_list.list) |->
                                [method |-> "popup", minutes |-> minutes_list.list[i]]]]
        ELSE [useDefault |-> FALSE]

\* the overrides create_event keeps: method email or popup, numeric minutes
RECURSIVE CleanOverrides(_)
CleanOverrides(overrides) ==
    IF overrides = <<>> THEN <<>>
    ELSE (IF Head(overrides).method \in {"email", "popup"}
          THEN <<Head(overrides)>> ELSE <<>>) \o CleanOverrides(Tail(overrides))

\* rem_payload of create_event for a reminders mapping
RemPayload(reminders) ==
    (IF "useDefault" \in DOMAIN reminders
     THEN [useDefault |-> reminders.useDefault] ELSE EmptyDict)
    @@ (IF "overrides" \in DOMAIN reminders /\ CleanOverrides(reminders.overrides) # <<>>
        THEN [overrides |-> CleanOverrides(reminders.overrides)] ELSE EmptyDict)
    @@ (IF "overrides" \in DOMAIN reminders /\ CleanOverrides(reminders.overrides) # <<>>
           /\ "useDefault" \notin DOMAIN reminders
        THEN [useDefault |-> FALSE] ELSE EmptyDict)

\* the reminders key of the body, when create_event sets one
BodyReminders(reminders) ==
    IF reminders = None THEN EmptyDict
    ELSE IF DOMAIN RemPayload(reminders) = {} THEN EmptyDict
    ELSE [reminders |-> RemPayload(reminders)]

\* start and end of the body create_event submits, or the ValueError
\* time_payloads raises
TimePayloads(o) ==
    IF o.all_day
    THEN IF o.start.day = 0
         THEN ValueError("Invalid isoformat string")
         ELSE [summary |-> "Standup",
               start |-> [date |-> [day |-> o.start.day]],
               end |-> [date |-> [day |-> AllDayEnd(o.start, o.end).day]]]
    ELSE IF o.end = None
         THEN ValueError("end is required unless creating an all-day event (all_day=true).")
         ELSE [summary |-> "Standup",
               start |-> [dateTime |-> o.start],
               end |-> [dateTime |-> o.end]]

\* the body the create_event tool submits, or the ValueError raised
CreateBody(o) ==
    IF "type" \in DOMAIN TimePayloads(o) THEN TimePayloads(o)
    ELSE TimePayloads(o) @@ BodyReminders(RemindersPayload(o.reminders))

\* start / end of update_event: a 'T' selects dateTime, else date
PatchTime(v) == IF v.hasT THEN [dateTime |-> v] ELSE [date |-> v]

\* the body update_event submits
PatchBody(patch) ==
    (IF "summary" \in DOMAIN patch THEN [summary |-> patch.summary] ELSE EmptyDict)
    @@ (IF "start" \in DOMAIN patch THEN [start |-> PatchTime(patch.start)] ELSE EmptyDict)
    @@ (IF "end" \in DOMAIN patch THEN [end |-> PatchTime(patch.end)] ELSE EmptyDict)

\* x.get("dateTime") or x.get("date") of an optional start / end mapping
TimeOf(ev, key) ==
    IF key \notin DOMAIN ev THEN None
    ELSE IF "dateTime" \in DOMAIN ev[key] /\ ev[key].dateTime # None
         THEN ev[key].dateTime
         ELSE IF "date" \in DOMAIN ev[key] THEN ev[key].date ELSE None

\* the event projection create_event and update_event return
EventProjection(cid, ev) ==
    [calendarId |-> cid, eventId |-> Get(ev, "id"), summary |-> Get(ev, "summary"),
     start |-> TimeOf(ev, "start"), end |-> TimeOf(ev, "end")]

\* resolve_calendar_id has returned loc.calId: the handler runs up to its
\* next remote request
Resolved ==
    /\ pc = "resolved"
    /\ LET cid == loc.calId
           l == [loc EXCEPT !.calendars = <<>>, !.pageToken = 0]
       IN  CASE op.tool = "resolve_calendar" -> StartList(l, "rc_list")
             [] op.tool = "list_events" -> CallPull(cid, l) /\ world' = NoWorld
             [] op.tool = "create_event" ->
                   /\ world' = NoWorld
                   /\ IF "type" \in DOMAIN CreateBody(op)
                      THEN Raise(CreateBody(op))
                      ELSE Call("events.insert", CreateBody(op), l, "insert")
             [] op.tool = "update_event" ->
                   /\ world' = NoWorld
                   /\ Call("events.patch", PatchBody(op.patch), l, "patch")
             [] op.tool = "delete_event" ->
                   /\ world' = NoWorld
                   /\ IF op.as_instance
                      THEN Call("events.get", None, l, "del_get")
                      ELSE Call("events.delete", None, l, "delete")
             [] op.tool = "list_recurring_instances" ->
                   /\ world' = NoWorld
                   /\ Call("events.instances", None, l, "instances")
             [] op.tool = "cancel_recurring_instance" ->
                   /\ world' = NoWorld
                   /\ IF TruthyS(op.instance_id)
                      THEN Call("events.get", None, l, "cancel_get")
                      ELSE IF ~(TruthyS(op.recurring_event_id)
                                /\ TruthyS(op.original_start_time))
                      THEN Raise(ValueError("Provide either instance_id, or both recurring_event_id and original_start_time."))
                      ELSE Call("events.instances", None, l, "cancel_scan")
             [] OTHER ->
                   /\ world' = NoWorld
                   /\ Call("events.get", None, l, "split_get")
    /\ UNCHANGED <<envOk, op>>

\* pull after its events().list request; list_events moves to the next
\* calendar or returns
PullDone ==
    /\ pc = "pull"
    /\ RetryEnded
    /\ IF rstate = "raised" THEN Raise(rexc)
       ELSE IF rval = None THEN Raise(AttributeError)
       ELSE LET cid == CurReq.body.calendarId
                pulled == [i \in 1..Len(rval.items) |->
                             [calendarId |-> cid, eventId |-> rval.items[i].id,
                              summary |-> rval.items[i].summary]]
                events == loc.events \o pulled
            IN  IF loc.idx = 0 \/ loc.idx = Len(loc.calendars)
                THEN Finish([events |-> events])
                ELSE CallPull(loc.calendars[loc.idx + 1].id,
                              [loc EXCEPT !.events = events, !.idx = loc.idx + 1])
    /\ UNCHANGED <<envOk, world, op>>

\* create_event / update_event after the insert / patch request
WriteDone ==
    /\ pc \in {"insert", "patch"}
    /\ RetryEnded
    /\ IF rstate = "raised" THEN Raise(rexc)
       ELSE IF rval = None THEN Raise(AttributeError)
       ELSE Finish([ok |-> TRUE, event |-> EventProjection(loc.calId, rval)])
    /\ UNCHANGED <<envOk, world, op>>

\* delete_event(as_instance=True) after fetching the occurrence
DeleteGetDone ==
    /\ pc = "del_get"
    /\ RetryEnded
    /\ IF rstate = "raised" THEN Raise(rexc)
       ELSE IF rval = None THEN Raise(TypeError)
       ELSE Call("events.update", [rval EXCEPT !.status = "cancelled"],
                 [loc EXCEPT !.fetched = rval], "del_update")
    /\ UNCHANGED <<envOk, world, op>>

\* delete_event after its mutating request; the value of _retry is not read
DeleteDone ==
    /\ pc \in {"del_update", "delete"}
    /\ RetryEnded
    /\ IF rstate = "raised" THEN Raise(rexc) ELSE Finish([ok |-> TRUE])
    /\ UNCHANGED <<envOk, world, op>>

\* ost.get("dateTime") or ost.get("date")
OstVal(inst) ==
    IF TruthyS(inst.originalStartTime.dateTime)
    THEN inst.originalStartTime.dateTime
    ELSE inst.originalStartTime.date

InstanceProjection(cid, inst) ==
    [calendarId |-> cid, instanceId |-> inst.id,
     recurringEventId |-> inst.recurringEventId, originalStartTime |-> OstVal(inst),
     status |-> inst.status]

\* list_recurring_instances after the instances request
InstancesDone ==
    /\ pc = "instances"
    /\ RetryEnded
    /\ IF rstate = "raised" THEN Raise(rexc)
       ELSE IF rval = None THEN Raise(AttributeError)
       ELSE Finish([ok |-> TRUE,
                    instances |-> [i \in 1..Len(rval.items) |->
                                     InstanceProjection(loc.calId, rval.items[i])]])
    /\ UNCHANGED <<envOk, world, op>>

(***************************************************************************)
(* cancel_recurring_instance                                               *)
(***************************************************************************)
\* instance["status"] = "cancelled"; events().update(eventId=instance["id"], body=instance)
CallCancelUpdate(instance) ==
    Call("events.update", [instance EXCEPT !.status = "cancelled"],
         [loc EXCEPT !.fetched = instance], "cancel_update")

\* after events().get(eventId=instance_id): check the series, then update
CancelGetDone ==
    /\ pc = "cancel_get"
    /\ RetryEnded
    /\ IF rstate = "raised" THEN Raise(rexc)
       ELSE IF rval = None
       THEN IF TruthyS(op.recurring_event_id) THEN Raise(AttributeError)
            ELSE Raise(TypeError)
       ELSE IF TruthyS(op.recurring_event_id)
               /\ rval.recurringEventId # op.recurring_event_id
       THEN Raise(ValueError("Provided instance_id does not belong to the specified recurring_event_id."))
       ELSE CallCancelUpdate(rval)
    /\ UNCHANGED <<envOk, world, op>>

\* the scan takes the first instance without comparing originalStartTime
FindInstance_first(items, ost) == IF items = <<>> THEN None ELSE Head(items)

\* the first item whose originalStartTime value equals ost, or None
RECURSIVE FindInstance(_, _)
FindInstance(items, ost) ==
    IF items = <<>> THEN None
    ELSE IF OstVal(Head(items)) = ost THEN Head(items)
    ELSE FindInstance(Tail(items), ost)

\* after events().instances(eventId=recurring_event_id, maxResults=250)
CancelScanDone ==
    /\ pc = "cancel_scan"
    /\ RetryEnded
    /\ IF rstate = "raised" THEN Raise(rexc)
       ELSE IF rval = None THEN Raise(AttributeError)
       ELSE LET instance == FindInstance(rval.items, op.original_start_time)
            IN  IF instance = None
                THEN Raise(ValueError("Could not find instance matching original_start_time."))
                ELSE CallCancelUpdate(instance)
    /\ UNCHANGED <<envOk, world, op>>

\* after the update that cancels the instance
CancelUpdateDone ==
    /\ pc = "cancel_update"
    /\ RetryEnded
    /\ IF rstate = "raised" THEN Raise(rexc)
       ELSE IF rval = None THEN Raise(AttributeError)
       ELSE Finish([ok |-> TRUE,
                    instance |-> [instanceId |-> rval.id,
                                  recurringEventId |-> rval.recurringEventId,
                                  status |-> rval.status]])
    /\ UNCHANGED <<envOk, world, op>>

(***************************************************************************)
(* update_following_instances                                              *)
(***************************************************************************)
\* seconds since the epoch, in UTC
Utc(stamp) == stamp.local - stamp.offset

\* strftime("%Y%m%dT%H%M%SZ") of a UTC instant: the day number and the
\* hour, minute and second fields of the compact form
Compact(secs) ==
    [day |-> secs \div 86400, hh |-> (secs % 86400) \div 3600,
     mm |-> (secs % 3600) \div 60, ss |-> secs % 60]

\* until_str: one second before the target, in UTC, compact form
UntilStr(tgt) == Compact(Utc(tgt) - 1)

\* p.upper() of a clause key
UpperKey(k) ==
    CASE k = "until" -> "UNTIL"
      [] k = "Count" -> "COUNT"
      [] k = "freq" -> "FREQ"
      [] OTHER -> k

\* a filter that compares the keys as written, without upper()
RECURSIVE KeepParts_cased(_)
KeepParts_cased(parts) ==
    IF parts = <<>> THEN <<>>
    ELSE IF Head(parts).key \in {"UNTIL", "COUNT"}
         THEN KeepParts_cased(Tail(parts))
         ELSE <<Head(parts)>> \o KeepParts_cased(Tail(parts))

\* line.upper().startswith("RRULE:")
IsRRule(line) == line.name \in {"RRULE", "rrule", "Rrule"}

RECURSIVE KeepParts(_)
KeepParts(parts) ==
    IF parts = <<>> THEN <<>>
    ELSE IF UpperKey(Head(parts).key) \in {"UNTIL", "COUNT"}
         THEN KeepParts(Tail(parts))
         ELSE <<Head(parts)>> \o KeepParts(Tail(parts))

\* the trimmed recurrence: every RRULE line loses UNTIL= and COUNT= and
\* gets UNTIL=until_str appended
TrimLine(line, until_str) ==
    IF IsRRule(line)
    THEN [name |-> "RRULE",
          parts |-> Append(KeepParts(line.parts), [key |-> "UNTIL", val |-> until_str])]
    ELSE line

TrimRecurrence(rec, until_str) == [i \in 1..Len(rec) |-> TrimLine(rec[i], until_str)]

\* after events().get of the series: validate, trim the recurrence, update
SplitGetDone ==
    /\ pc = "split_get"
    /\ RetryEnded
    /\ IF rstate = "raised" THEN Raise(rexc)
       ELSE IF rval = None THEN Raise(AttributeError)
       ELSE LET original == rval
                tgt == op.target_instance_start
            IN  IF ~(original.start.dateTime # None /\ original.end.dateTime # None)
                THEN Raise(ValueError("update_following_instances only supports events with dateTime (not all-day)."))
                ELSE IF tgt = BadIso
                THEN Raise(ValueError("Invalid isoformat string"))
                ELSE IF original.recurrence = <<>>
                THEN Raise(ValueError("Event is not a recurring series."))
                ELSE IF \A i \in 1..Len(original.recurrence) :
                           ~IsRRule(original.recurrence[i])
                THEN Raise(ValueError("Could not find RRULE in original recurrence."))
                ELSE Call("events.update",
                          [original EXCEPT
                             !.recurrence = TrimRecurrence(original.recurrence,
                                                           UntilStr(tgt))],
                          [loc EXCEPT !.fetched = original], "split_update")
    /\ UNCHANGED <<envOk, world, op>>

\* the body of the new series
NewSeriesBody(original, o) ==
    LET tgt == o.target_instance_start
        duration == Utc(original.end.dateTime) - Utc(original.start.dateTime)
    IN  [summary |-> IF "summary" \in DOMAIN o.change_patch
                     THEN o.change_patch.summary ELSE Get(original, "summary"),
         start |-> [dateTime |-> tgt],
         end |-> [dateTime |-> Stamp(tgt.local + duration, tgt.offset)],
         recurrence |-> o.new_recurrence]

\* after the update of the original series: the value of _retry is not
\* read; insert the new series
SplitUpdateDone ==
    /\ pc = "split_update"
    /\ RetryEnded
    /\ IF rstate = "raised" THEN Raise(rexc)
       ELSE Call("events.insert", NewSeriesBody(loc.fetched, op), loc, "split_insert")
    /\ UNCHANGED <<envOk, world, op>>

\* after the insert of the new series
SplitInsertDone ==
    /\ pc = "split_insert"
    /\ RetryEnded
    /\ IF rstate = "raised" THEN Raise(rexc)
       ELSE IF rval = None THEN Raise(AttributeError)
       ELSE Finish([ok |-> TRUE,
                    newRecurringEvent |->
                        [calendarId |-> loc.calId, eventId |-> rval.id,
                         summary |-> rval.summary, start |-> rval.start.dateTime,
                         end |-> rval.end.dateTime, recurrence |-> rval.recurrence]])
    /\ UNCHANGED <<envOk, world, op>>

\* the transport has the result; the server waits for the next invocation
Return ==
    /\ pc = "done"
    /\ op' = NoOp
    /\ pc' = "idle"
    /\ log' = <<>>
    /\ loc' = InitLoc
    /\ result' = NoResult
    /\ world' = NoWorld
    /\ attempt' = 0
    /\ backoff' = InitialBackoff
    /\ sleeps' = <<>>
    /\ ncalls' = 0
    /\ ntransient' = 0
    /\ status' = 0
    /\ answered' = None
    /\ rstate' = "idle"
    /\ rval' = None
    /\ rexc' = None
    /\ UNCHANGED envOk

Next ==
    \/ Invoke
    \/ RetryAttempt
    \/ ProbeDone
    \/ ListCalendarsPage
    \/ Resolved
    \/ PullDone
    \/ WriteDone
    \/ DeleteGetDone
    \/ DeleteDone
    \/ InstancesDone
    \/ CancelGetDone
    \/ CancelScanDone
    \/ CancelUpdateDone
    \/ SplitGetDone
    \/ SplitUpdateDone
    \/ SplitInsertDone
    \/ Return

Spec == Init /\ [][Next]_vars

TypeOK ==
    /\ rstate \in {"idle", "running", "returned", "raised"}
    /\ attempt \in 0..MaxAttempts
    /\ ncalls \in 0..MaxAttempts

(***************************************************************************)
(* The helpers that compute a value from their arguments alone, applied to *)
(* arguments drawn from bounded sets: op holds the arguments, result the   *)
(* value.                                                                  *)
(***************************************************************************)
\* clauses of a rule, with the keys in the letter cases a remote can hold
PartPool ==
    { [key |-> "FREQ", val |-> "WEEKLY"], [key |-> "freq", val |-> "DAILY"],
      [key |-> "INTERVAL", val |-> "2"],
      [key |-> "UNTIL", val |-> "20240101T000000Z"],
      [key |-> "until", val |-> "20231231T235959Z"],
      [key |-> "COUNT", val |-> "5"], [key |-> "Count", val |-> "3"] }

\* one-line recurrence lists holding a rule of up to MaxParts clauses
RuleLists ==
    { <<[name |-> n, parts |-> ps]>> :
        n \in {"RRULE", "rrule"}, ps \in SeqsUpTo(PartPool, MaxParts) }

RRuleCount == [name |-> "RRULE", parts |-> <<[key |-> "FREQ", val |-> "DAILY"],
                                             [key |-> "COUNT", val |-> "5"]>>]

\* recurrence lists of up to MaxLines lines
LineLists == SeqsUpTo({RRuleWeekly, RRuleCount, ExDate}, MaxLines)

\* target_instance_start values datetime.fromisoformat accepts
Targets ==
    { Stamp(l, o) : l \in {0, 1, 3600, 86400, 90061}, o \in {0, 3600, -18000} }

\* items a client can put into a reminders array
TokenPool ==
    { IntItem(60), IntItem(120), IntItem(-5), FloatItem(181), FloatItem(-1),
      StrItem(2, "h"), StrItem(60, "m"), StrItem(90, ""), StrItem(0, "soon") }

\* reminders values: absent, a string, or an array of up to MaxTokens items
ReminderValues ==
    {None, [text |-> "120,60"]} \cup { [list |-> l] : l \in SeqsUpTo(TokenPool, MaxTokens) }

\* start and end strings of create_event: not a date, a date, a date-time
\* with 'T', a date and a time of day after a space
TimeStrings ==
    {IsoValue(0, FALSE)}
    \cup { IsoValue(dd, t) : dd \in 1..MaxDay, t \in BOOLEAN }
    \cup { IsoSpaced(dd, 43200) : dd \in 1..MaxDay }

PureOps ==
    [tool : {"trim_recurrence"}, original : RuleLists \cup LineLists, target : Targets]
    \cup [tool : {"_normalize_reminder_minutes"}, value : ReminderValues]
    \cup [tool : {"time_payloads"}, start : TimeStrings, end : {None} \cup TimeStrings,
          all_day : BOOLEAN]

InitPure ==
    /\ envOk = TRUE
    /\ world = NoWorld
    /\ op \in PureOps
    /\ pc = "pure"
    /\ log = <<>>
    /\ loc = InitLoc
    /\ result = NoResult
    /\ attempt = 0
    /\ backoff = InitialBackoff
    /\ sleeps = <<>>
    /\ ncalls = 0
    /\ ntransient = 0
    /\ status = 0
    /\ answered = None
    /\ rstate = "idle"
    /\ rval = None
    /\ rexc = None

\* the value is computed; nothing else changes
Applied(value) ==
    /\ result' = [value |-> value]
    /\ pc' = "applied"
    /\ UNCHANGED <<envOk, world, op, log, loc, retryVars>>

\* the recurrence rewrite of update_following_instances
ApplyTrim ==
    /\ pc = "pure"
    /\ op.tool = "trim_recurrence"
    /\ Applied(TrimRecurrence(op.original, UntilStr(op.target)))

ApplyNormalize ==
    /\ pc = "pure"
    /\ op.tool = "_normalize_reminder_minutes"
    /\ Applied(_normalize_reminder_minutes(op.value))

\* time_payloads of create_event
ApplyTimePayloads ==
    /\ pc = "pure"
    /\ op.tool = "time_payloads"
    /\ Applied(TimePayloads(op))

NextPure ==
    \/ ApplyTrim
    \/ ApplyNormalize
    \/ ApplyTimePayloads

SpecPure == InitPure /\ [][NextPure]_vars

(***************************************************************************)
(* Properties.                                                             *)
(***************************************************************************)
MutatingRequests == {"events.insert", "events.update", "events.patch", "events.delete"}

NoMutation(l) == \A i \in 1..Len(l) : l[i].fn \notin MutatingRequests

IsErrorEnvelope(r) ==
    /\ DOMAIN r = {"ok", "error"}
    /\ r.ok = FALSE
    /\ DOMAIN r.error = {"type", "message"}

\* C1: when the remote answers all 5 executions of a request with a
\* transient status, _retry raises the last error after the 5th execution,
\* has slept at most 4 times, and does not return a value.
C1_ExhaustionRaises ==
    (rstate # "running" /\ ncalls = 5 /\ ntransient = 5) =>
        /\ rstate = "raised"
        /\ rexc # None
        /\ rexc.status = status
        /\ Len(sleeps) <= 4

\* C2: in update_following_instances no insert of a new series is issued
\* unless the trimming update of the original series succeeded before it.
C2_NoInsertAfterFailedTrim ==
    op.tool = "update_following_instances" =>
        \A i \in 1..Len(log) :
            log[i].fn = "events.insert" =>
                \E j \in 1..(i - 1) : log[j].fn = "events.update" /\ log[j].res = "ok"

\* C3: when the trimming update succeeded and the insert of the new series
\* failed, update_following_instances reports the error kind
\* PartialFailureError.
C3_PartialFailureReported ==
    ( /\ pc = "done"
      /\ op.tool = "update_following_instances"
      /\ Len(log) > 0
      /\ CurReq.fn = "events.insert"
      /\ CurReq.res # "ok"
      /\ \E j \in 1..Len(log) : log[j].fn = "events.update" /\ log[j].res = "ok" )
    => ("error" \in DOMAIN result /\ result.error.type = "PartialFailureError")

\* C4: every tool that returns without an error returns a mapping whose
\* field ok is true.
C4_SuccessHasOk ==
    (pc = "done" /\ "error" \notin DOMAIN result) =>
        ("ok" \in DOMAIN result /\ result.ok = TRUE)

\* C5: whenever a step of a tool invocation failed (a remote request other
\* than the resolver's probe raised or ran out of retries), the tool returns
\* the error envelope: ok = false and an error with a type and a message.
C5_FailureGivesErrorEnvelope ==
    ( /\ pc = "done"
      /\ \E i \in 1..Len(log) :
            log[i].fn # "calendars.get" /\ log[i].res \in {"raised", "exhausted"} )
    => IsErrorEnvelope(result)

\* C6: when the remote answers the first k executions (k in 0..4) with a
\* transient status and the next with 200, _retry has executed the request
\* k + 1 times, slept k times for 1, 2, 4, 8 time units in this order, and
\* returns the payload of the 200 answer.
C6_SuccessAfterTransient ==
    status = 200 =>
        /\ rstate = "returned"
        /\ ntransient \in 0..4
        /\ ncalls = ntransient + 1
        /\ Len(sleeps) = ntransient
        /\ \A i \in 1..Len(sleeps) : sleeps[i] = Min(2 ^ (i - 1), 8)
        /\ rval = answered
        /\ rval # None

C6_Witness ==
    /\ status = 200
    /\ rstate = "returned"
    /\ sleeps = <<1, 2, 4, 8>>
    /\ ncalls = 5

\* C7: an execution that fails with anything but a transient status makes
\* _retry raise at once: no sleep follows it, and the request is not
\* executed again by this _retry.
C7_FatalFailureNotRetried ==
    [][ /\ ( /\ ncalls' = ncalls + 1
             /\ status' \notin {200, 429, 500, 502, 503, 504} )
           => (rstate' = "raised" /\ rexc' # None /\ sleeps' = sleeps)
        /\ rstate = "raised" =>
              \/ (ncalls' = ncalls /\ sleeps' = sleeps /\ rstate' = "raised")
              \/ (ncalls' = 0 /\ sleeps' = <<>>) ]_vars

C7_Witness ==
    /\ rstate = "raised"
    /\ ntransient = 2
    /\ ncalls = 3
    /\ status = 404
    /\ sleeps = <<1, 2>>
    /\ rexc.type = "HttpError"

\* C8: resolve_calendar_id, once entered, always returns a calendar
\* identifier: no outcome of the probe or of the listing requests makes it
\* raise.
C8_ResolveNeverRaises ==
    [][ (pc \in {"probe", "resolve_list"}) =>
            (pc' \in {"probe", "resolve_list", "resolved"}) ]_vars

\* C9: when the probe failed and some listed calendar's id equals the query
\* ignoring case, resolve_calendar_id returns the id of such a calendar,
\* whatever display names the calendars listed before it have.
C9_IdMatchBeforeNameMatch ==
    ( /\ pc = "resolved"
      /\ Len(log) > 0
      /\ log[1].fn = "calendars.get"
      /\ log[1].res = "raised"
      /\ \E i \in 1..Len(loc.calendars) :
            Lower(loc.calendars[i].id) = Lower(Strip(op.calendar)) )
    => Lower(loc.calId) = Lower(Strip(op.calendar))

\* the preconditions of cancel_recurring_instance, at the point where the
\* handler evaluates them
CancelPreconditionFails ==
    /\ op.tool = "cancel_recurring_instance"
    /\ \/ /\ pc = "resolved"
          /\ ~TruthyS(op.instance_id)
          /\ ~(TruthyS(op.recurring_event_id) /\ TruthyS(op.original_start_time))
       \/ /\ pc = "cancel_get"
          /\ rstate = "returned"
          /\ rval # None
          /\ TruthyS(op.recurring_event_id)
          /\ rval.recurringEventId # op.recurring_event_id
       \/ /\ pc = "cancel_scan"
          /\ rstate = "returned"
          /\ rval # None
          /\ \A i \in 1..Len(rval.items) :
                OstVal(rval.items[i]) # op.original_start_time

\* the preconditions of update_following_instances on the fetched series
SplitPreconditionFails ==
    /\ op.tool = "update_following_instances"
    /\ pc = "split_get"
    /\ rstate = "returned"
    /\ rval # None
    /\ \/ rval.start.dateTime = None
       \/ rval.end.dateTime = None
       \/ rval.recurrence = <<>>
       \/ \A i \in 1..Len(rval.recurrence) : rval.recurrence[i].name # "RRULE"

\* C10: when cancel_recurring_instance or update_following_instances fails
\* one of its preconditions, the invocation ends there with a validation
\* error (ValueError) and has issued no update, insert, patch or delete.
C10_ValidationBeforeMutation ==
    [][ (CancelPreconditionFails \/ SplitPreconditionFails) =>
            /\ pc' = "done"
            /\ IsErrorEnvelope(result')
            /\ result'.error.type = "ValueError"
            /\ NoMutation(log') ]_vars

C10_Witness ==
    /\ pc = "done"
    /\ op.tool = "cancel_recurring_instance"
    /\ op.instance_id = "instA1"
    /\ op.recurring_event_id = "seriesB"
    /\ rval # None
    /\ rval.recurringEventId = "seriesA"
    /\ IsErrorEnvelope(result)
    /\ result.error.type = "ValueError"
    /\ Len(log) > 0

UntilKeys == {"UNTIL", "until"}
CountKeys == {"COUNT", "Count"}
IsUntilPart(p) == p.key \in UntilKeys
IsOtherPart(p) == p.key \notin UntilKeys \cup CountKeys

\* the instant a compact UTC string names, in seconds
SecondsOf(c) == c.day * 86400 + c.hh * 3600 + c.mm * 60 + c.ss

IsClockTime(c) == c.hh \in 0..23 /\ c.mm \in 0..59 /\ c.ss \in 0..59

\* C11: for every split timestamp t and every original RRULE line, with or
\* without UNTIL= and COUNT= clauses in any letter case, the RRULE line
\* pushed to the original series has exactly one UNTIL= clause, whose value
\* is t minus one second in UTC, has no COUNT= clause, and keeps all other
\* clauses in their original order.
C11_UntilRewritten ==
    (pc = "applied" /\ op.tool = "trim_recurrence") =>
        \A i \in 1..Len(op.original) :
            op.original[i].name \in {"RRULE", "rrule"} =>
                LET line == result.value[i]
                    untils == SelectSeq(line.parts, IsUntilPart)
                IN  /\ line.name = "RRULE"
                    /\ Len(untils) = 1
                    /\ IsClockTime(untils[1].val)
                    /\ SecondsOf(untils[1].val) = op.target.local - op.target.offset - 1
                    /\ \A j \in 1..Len(line.parts) : line.parts[j].key \notin CountKeys
                    /\ SelectSeq(line.parts, IsOtherPart)
                         = SelectSeq(op.original[i].parts, IsOtherPart)

\* a rule written in lower case with both an until and a Count clause, split
\* at a local midnight east of Greenwich, has been rewritten
C11_Witness ==
    /\ pc = "applied"
    /\ op.tool = "trim_recurrence"
    /\ op.original = <<[name |-> "rrule",
                        parts |-> <<[key |-> "until", val |-> "20231231T235959Z"],
                                    [key |-> "freq", val |-> "DAILY"],
                                    [key |-> "Count", val |-> "3"]>>]>>
    /\ op.target = Stamp(86400, 3600)
    /\ result.value = <<[name |-> "RRULE",
                         parts |-> <<[key |-> "freq", val |-> "DAILY"],
                                     [key |-> "UNTIL",
                                      val |-> [day |-> 0, hh |-> 22, mm |-> 59, ss |-> 59]]>>]>>

\* C12: while a page of a calendar's events carries a continuation token,
\* list_events requests the next page of that same calendar before it reads
\* another calendar or returns; it never stops at the first page.
C12_EventPagesFollowed ==
    [][ (pc = "pull" /\ rstate = "returned" /\ rval # None /\ rval.nextPageToken # 0) =>
            /\ pc' = "pull"
            /\ Len(log') = Len(log) + 1
            /\ log'[Len(log')].fn = "events.list"
            /\ log'[Len(log')].body.calendarId = CurReq.body.calendarId ]_vars

\* the minute value a token stands for: a number as it is, a string by its
\* unit (h: hours; m, min, mins, minute, minutes or none: minutes)
IsParseable(item) ==
    item.kind \in {"int", "float"} \/ item.unit \in {"h", "m", "min", "mins", "minute", "minutes", ""}

MinutesOf(item) ==
    IF item.kind \in {"int", "float"} THEN IntOf(item)
    ELSE IF item.unit = "h" THEN item.n * 60 ELSE item.n

\* C13: for every sequence of tokens, each a number or a string with an
\* optional unit suffix, the result of the normalization is the ascending
\* duplicate-free list of the non-negative minute values of the parseable
\* tokens; normalize(["2h","60m","90"]) = [60, 90, 120].
C13_TokensNormalized ==
    (pc = "applied" /\ op.tool = "_normalize_reminder_minutes"
       /\ op.value # None /\ "list" \in DOMAIN op.value) =>
        LET items == op.value.list
            expected == { MinutesOf(items[i]) :
                            i \in { j \in 1..Len(items) :
                                      IsParseable(items[j]) /\ MinutesOf(items[j]) >= 0 } }
        IN  /\ result.value # None
            /\ result.value.list = Sorted(expected)

\* the non-negative minute values of a reminders array
MinuteValues(items) ==
    { items[i].n : i \in { j \in 1..Len(items) : items[j].kind = "int" /\ items[j].n >= 0 } }

\* C14: the body create_event submits carries no reminders field when the
\* reminders argument is absent, reminders with useDefault = false and no
\* overrides when it is an empty list, and useDefault = false with one popup
\* override per distinct non-negative minute value when it is a non-empty
\* list of minutes.
C14_RemindersEmptyVersusAbsent ==
    (op.tool = "create_event" /\ Len(log) > 0 /\ CurReq.fn = "events.insert") =>
        LET body == CurReq.body
        IN  IF op.reminders = None THEN "reminders" \notin DOMAIN body
            ELSE /\ "reminders" \in DOMAIN body
                 /\ body.reminders.useDefault = FALSE
                 /\ LET wanted == MinuteValues(op.reminders.list)
                    IN  IF wanted = {}
                        THEN DOMAIN body.reminders = {"useDefault"}
                        ELSE /\ DOMAIN body.reminders = {"useDefault", "overrides"}
                             /\ Len(body.reminders.overrides) = Cardinality(wanted)
                             /\ \A i \in 1..Len(body.reminders.overrides) :
                                    /\ body.reminders.overrides[i].method = "popup"
                                    /\ body.reminders.overrides[i].minutes \in wanted
                             /\ \A m \in wanted :
                                    \E i \in 1..Len(body.reminders.overrides) :
                                        body.reminders.overrides[i].minutes = m

\* an event was created from the reminders [120, 60, 60, -5]: the submitted
\* body carries the two popup overrides 60 and 120
C14_Witness ==
    /\ pc = "done"
    /\ op.tool = "create_event"
    /\ op.reminders = [list |-> <<IntItem(120), IntItem(60), IntItem(60), IntItem(-5)>>]
    /\ Len(log) > 0
    /\ CurReq.fn = "events.insert"
    /\ CurReq.res = "ok"
    /\ CurReq.body.reminders =
          [useDefault |-> FALSE,
           overrides |-> <<[method |-> "popup", minutes |-> 60],
                           [method |-> "popup", minutes |-> 120]>>]
    /\ "ok" \in DOMAIN result
    /\ result.ok = TRUE

\* C15: with all_day = true, for every start date and every end value, the
\* submitted end date is start + 1 day if the end is absent, unparseable or
\* not strictly after the start, and the end date unchanged if it is
\* strictly after the start; the submitted end is strictly after the
\* submitted start.
C15_AllDayEndAfterStart ==
    (pc = "applied" /\ op.tool = "time_payloads" /\ op.all_day /\ op.start.day # 0) =>
        LET sent == result.value
        IN  /\ sent.start.date.day = op.start.day
            /\ IF op.end = None \/ op.end.day = 0 \/ op.end.day <= op.start.day
               THEN sent.end.date.day = op.start.day + 1
               ELSE sent.end.date.day = op.end.day
            /\ sent.end.date.day > sent.start.date.day

\* the kind of a start / end payload: a timestamp or a civil date
KindOf(payload) == IF "dateTime" \in DOMAIN payload THEN "dateTime" ELSE "date"

\* C16: every body that create_event or update_event submits with both a
\* start and an end has them of the same kind, both civil dates or both
\* timestamps, whatever the start and end strings and the all-day flag.
C16_StartEndSameKind ==
    (op.tool \in {"create_event", "update_event"} /\ Len(log) > 0
       /\ CurReq.fn \in {"events.insert", "events.patch"}
       /\ {"start", "end"} \subseteq DOMAIN CurReq.body) =>
        KindOf(CurReq.body.start) = KindOf(CurReq.body.end)

\* the lines of a recurrence list that begin with RRULE:, in any letter case
RRuleLines(rec) == { i \in 1..Len(rec) : rec[i].name \in {"RRULE", "rrule"} }

\* C17: the recurrence list pushed to the original series has the length
\* and line order of the original list and differs from it only in the
\* first line that begins with RRULE:; every other line, EXDATE lines and
\* any later RRULE: line included, is passed through unchanged.
C17_OnlyFirstRRuleRewritten ==
    (pc = "applied" /\ op.tool = "trim_recurrence") =>
        /\ Len(result.value) = Len(op.original)
        /\ \A i \in 1..Len(op.original) :
              (\E j \in RRuleLines(op.original) : j < i) \/ i \notin RRuleLines(op.original)
                  => result.value[i] = op.original[i]

\* the requests delete_event itself hands to _retry, after the resolver's
IsEventRequest(e) == e.fn \in {"events.get", "events.update", "events.delete"}

\* C18: when delete_event reports success, with as_instance it has fetched
\* the occurrence and then issued exactly one update, whose body is the
\* fetched record with status cancelled, and no hard delete; without
\* as_instance it has issued exactly one hard delete and no fetch or
\* update; in both cases the mutating request has succeeded.
C18_DeleteCallSequence ==
    (pc = "done" /\ op.tool = "delete_event" /\ "ok" \in DOMAIN result /\ result.ok = TRUE) =>
        LET reqs == SelectSeq(log, IsEventRequest)
        IN  IF op.as_instance
            THEN /\ Len(reqs) = 2
                 /\ reqs[1].fn = "events.get"
                 /\ reqs[1].res = "ok"
                 /\ reqs[2].fn = "events.update"
                 /\ reqs[2].body = [loc.fetched EXCEPT !.status = "cancelled"]
                 /\ reqs[2].res = "ok"
            ELSE /\ Len(reqs) = 1
                 /\ reqs[1].fn = "events.delete"
                 /\ reqs[1].res = "ok"

====
